---- MODULE Spec2Model ----
(***************************************************************************)
(* Model of ingest_papers.py: the two-tier metadata extraction (GROBID     *)
(* header service, heuristic text fallback), the per-document selection    *)
(* in main(), and the upsert into the papers table.                        *)
(*                                                                         *)
(* Python values are represented as follows.                               *)
(*   str            a TLA+ string                                          *)
(*   Optional[x]    None == {} or Some(x) == {x}                           *)
(*   list           a sequence                                             *)
(*   datetime.date  a record [y, m, d]                                     *)
(*   an exception   a value standing where the result would be            *)
(***************************************************************************)
EXTENDS Integers, Sequences, FiniteSets, TLC

VARIABLES
    fs,          \* the source directory: [exists, files] (unchanged between runs)
    pdf_files,   \* iter_pdfs(directory): the discovered paths, in order
    run,         \* number of the current invocation of main()
    pc,          \* position of the current invocation in main()
    args,        \* parsed command line: [dry_run, no_grobid]
    conn,        \* "none" | "open" | "closed"
    use_grobid,  \* main's use_grobid
    idx,         \* number of documents the for loop has taken
    processed,   \* main's processed counter
    txn,         \* papers table as seen inside the open transaction
    db,          \* committed papers table
    clock,       \* NOW()
    stdout,      \* lines printed by this invocation
    hist,        \* per invocation: what happened (availability checks, calls, commits, ...)
    fin,         \* input of a pure extractor application
    fout         \* its result

vars == <<fs, pdf_files, run, pc, args, conn, use_grobid, idx, processed,
          txn, db, clock, stdout, hist, fin, fout>>

(***************************************************************************)
(* Optional values and small helpers                                       *)
(***************************************************************************)
None == {}
Some(x) == {x}
The(o) == CHOOSE x \in o : TRUE

Min(S) == CHOOSE x \in S : \A y \in S : x <= y
Max(S) == CHOOSE x \in S : \A y \in S : x >= y

\* The elements of a finite set of integers in increasing order.
Sorted(S) ==
    [k \in 1..Cardinality(S) |-> CHOOSE x \in S : Cardinality({y \in S : y < x}) = k - 1]

Range(s) == {s[i] : i \in 1..Len(s)}

(***************************************************************************)
(* Characters                                                              *)
(***************************************************************************)
Ch(s, i) == IF i >= 1 /\ i <= Len(s) THEN SubSeq(s, i, i) ELSE ""

LowerCase == "abcdefghijklmnopqrstuvwxyz"
UpperCase == "ABCDEFGHIJKLMNOPQRSTUVWXYZ"
Digits == {"0", "1", "2", "3", "4", "5", "6", "7", "8", "9"}
Letters == {Ch(LowerCase, i) : i \in 1..26} \cup {Ch(UpperCase, i) : i \in 1..26}
\* The control characters U+000B and U+001C to U+001F, written as themselves: the
\* vertical tab and the file, group, record and unit separators.
VT == ""
FS == ""
GS == ""
RS == ""
US == ""

\* The ASCII characters c with c.isspace(): what str.strip() and str.split() remove
\* and what \s of the re module matches in a str pattern. The texts of the model
\* are ASCII.
Whitespace == {" ", "\t", "\n", "\r", "\f", VT, FS, GS, RS, US}

\* The ASCII line boundaries of str.splitlines() other than \r
LineBreaks == {"\n", "\f", VT, FS, GS, RS}

WordChars == Letters \cup Digits \cup {"_"}

\* \w of the re module
IsWord(c) == c \in WordChars

ToLower == [c \in {Ch(UpperCase, i) : i \in 1..26} |->
               Ch(LowerCase, CHOOSE i \in 1..26 : Ch(UpperCase, i) = c)]

\* str.lower() of one character
LowerCh(c) == IF c \in DOMAIN ToLower THEN ToLower[c] ELSE c

\* \b at the gap in front of position p
Boundary(s, p) == IsWord(Ch(s, p - 1)) # IsWord(Ch(s, p))

\* the literal lit, lower case, matches s at position p under re.IGNORECASE
MatchesNoCase(s, p, lit) ==
    /\ p >= 1
    /\ p + Len(lit) - 1 <= Len(s)
    /\ \A k \in 1..Len(lit) : LowerCh(Ch(s, p + k - 1)) = Ch(lit, k)

\* the literal lit matches s at position p
Matches(s, p, lit) ==
    /\ p >= 1
    /\ p + Len(lit) - 1 <= Len(s)
    /\ SubSeq(s, p, p + Len(lit) - 1) = lit

\* end of the run of whitespace starting at p: first position >= p holding no whitespace
SkipWs(s, p) == Min({q \in p..(Len(s) + 1) : Ch(s, q) \notin Whitespace})

RECURSIVE ToInt(_)
ToInt(s) ==
    IF s = "" THEN 0
    ELSE 10 * ToInt(SubSeq(s, 1, Len(s) - 1))
         + (CHOOSE n \in 0..9 : Ch("0123456789", n + 1) = Ch(s, Len(s)))

(***************************************************************************)
(* str methods                                                             *)
(***************************************************************************)
\* str.strip()
strip(s) ==
    LET keep == {i \in 1..Len(s) : Ch(s, i) \notin Whitespace}
    IN  IF keep = {} THEN "" ELSE SubSeq(s, Min(keep), Max(keep))

\* str.lower()
RECURSIVE lower(_)
lower(s) == IF s = "" THEN "" ELSE LowerCh(Ch(s, 1)) \o lower(SubSeq(s, 2, Len(s)))

\* str.split() without arguments
split_ws(s) ==
    LET starts == {i \in 1..Len(s) :
                      Ch(s, i) \notin Whitespace /\ (i = 1 \/ Ch(s, i - 1) \in Whitespace)}
        st == Sorted(starts)
        EndOf(i) == Min({j \in i..Len(s) : j = Len(s) \/ Ch(s, j + 1) \in Whitespace})
    IN  [k \in 1..Len(st) |-> SubSeq(s, st[k], EndOf(st[k]))]

\* sep.join(parts)
RECURSIVE join(_, _)
join(sep, parts) ==
    IF parts = <<>> THEN ""
    ELSE IF Len(parts) = 1 THEN parts[1]
    ELSE parts[1] \o sep \o join(sep, Tail(parts))

\* str.split(sep) for a one-character sep
split(s, sep) ==
    LET cuts == Sorted({i \in 1..Len(s) : Ch(s, i) = sep})
        From(k) == IF k = 1 THEN 1 ELSE cuts[k - 1] + 1
        To(k) == IF k = Len(cuts) + 1 THEN Len(s) ELSE cuts[k] - 1
    IN  [k \in 1..(Len(cuts) + 1) |-> SubSeq(s, From(k), To(k))]

\* str.replace(old, new): occurrences taken left to right, not overlapping
RECURSIVE replace(_, _, _)
replace(s, old, new) ==
    LET hits == {i \in 1..Len(s) : Matches(s, i, old)}
    IN  IF hits = {} THEN s
        ELSE LET i == Min(hits)
             IN  SubSeq(s, 1, i - 1) \o new
                 \o replace(SubSeq(s, i + Len(old), Len(s)), old, new)

\* str.splitlines(): breaks at \r\n, at \r and at each of LineBreaks; no empty
\* last line
splitlines(s) ==
    LET IsEnd(i) == \/ Ch(s, i) \in LineBreaks
                    \/ Ch(s, i) = "\r" /\ Ch(s, i + 1) # "\n"
        ends == Sorted({i \in 1..Len(s) : IsEnd(i)})
        BreakStart(i) == IF Ch(s, i) = "\n" /\ Ch(s, i - 1) = "\r" THEN i - 1 ELSE i
        From(k) == IF k = 1 THEN 1 ELSE ends[k - 1] + 1
        To(k) == IF k = Len(ends) + 1 THEN Len(s) ELSE BreakStart(ends[k]) - 1
        n == IF From(Len(ends) + 1) > Len(s) THEN Len(ends) ELSE Len(ends) + 1
    IN  [k \in 1..n |-> SubSeq(s, From(k), To(k))]

(***************************************************************************)
(* Dates                                                                   *)
(***************************************************************************)
\* a raised ValueError, standing in the place of the value the call would have returned
ValueError == {[exc |-> "ValueError"]}

IsLeap(y) == (y % 4 = 0 /\ y % 100 # 0) \/ y % 400 = 0

DaysIn(y, m) ==
    IF m = 2 THEN (IF IsLeap(y) THEN 29 ELSE 28)
    ELSE IF m \in {4, 6, 9, 11} THEN 30 ELSE 31

\* datetime.date(y, m, d), and date.fromisoformat of a YYYY-MM-DD string
MakeDate(y, m, d) ==
    IF m \in 1..12 /\ d >= 1 /\ d <= DaysIn(y, m)
    THEN Some([y |-> y, m |-> m, d |-> d])
    ELSE ValueError

\* (19|20)\d{2} at position i, without the word boundaries
Year4At(s, i) ==
    /\ Matches(s, i, "19") \/ Matches(s, i, "20")
    /\ Ch(s, i + 2) \in Digits
    /\ Ch(s, i + 3) \in Digits

\* -\d{2} at position i
DashTwoAt(s, i) == Ch(s, i) = "-" /\ Ch(s, i + 1) \in Digits /\ Ch(s, i + 2) \in Digits

\* \b(19|20)\d{2}\b
YearAt(s, i) == Boundary(s, i) /\ Year4At(s, i) /\ Boundary(s, i + 4)

\* \b(19|20)\d{2}-\d{2}\b
YearMonthAt(s, i) ==
    Boundary(s, i) /\ Year4At(s, i) /\ DashTwoAt(s, i + 4) /\ Boundary(s, i + 7)

\* \b(19|20)\d{2}-\d{2}-\d{2}\b
IsoDateAt(s, i) ==
    /\ Boundary(s, i) /\ Year4At(s, i)
    /\ DashTwoAt(s, i + 4) /\ DashTwoAt(s, i + 7)
    /\ Boundary(s, i + 10)

extract_year(text) ==
    LET Group(i) == Some(ToInt(SubSeq(text, i, i + 3)))
        Leftmost(hits) == IF hits = {} THEN None ELSE Group(Min(hits))
    IN  Leftmost({i \in 1..Len(text) : YearAt(text, i)})

parse_publication_date(value) ==
    LET Day(v, i) ==
            MakeDate(ToInt(SubSeq(v, i, i + 3)), ToInt(SubSeq(v, i + 5, i + 6)),
                     ToInt(SubSeq(v, i + 8, i + 9)))
        Month(v, i) == MakeDate(ToInt(SubSeq(v, i, i + 3)), ToInt(SubSeq(v, i + 5, i + 6)), 1)
        Year(v, i) == MakeDate(ToInt(SubSeq(v, i, i + 3)), 1, 1)
        First(v, iso, ym, yr) ==
            IF iso # {} THEN Day(v, Min(iso))
            ELSE IF ym # {} THEN Month(v, Min(ym))
            ELSE IF yr # {} THEN Year(v, Min(yr))
            ELSE None
        Parse(v) ==
            First(v, {i \in 1..Len(v) : IsoDateAt(v, i)},
                     {i \in 1..Len(v) : YearMonthAt(v, i)},
                     {i \in 1..Len(v) : YearAt(v, i)})
    IN  IF value = None \/ value = Some("") THEN None ELSE Parse(strip(The(value)))

(***************************************************************************)
(* Heuristic text extractor                                                *)
(***************************************************************************)
normalize_whitespace(value) ==
    IF value = None \/ value = Some("") THEN None
    ELSE LET OrNothing(r) == IF r = "" THEN None ELSE Some(r)
         IN  OrNothing(strip(join(" ", split_ws(The(value)))))

\* [part.strip() for part in normalized.split(",")], then the non-empty parts
StripParts(normalized) ==
    LET parts == split(normalized, ",")
        stripped == [k \in 1..Len(parts) |-> strip(parts[k])]
        NonEmpty(part) == part # ""
    IN  SelectSeq(stripped, NonEmpty)

\* a split that leaves the semicolons alone
split_authors_no_semicolon(authors_line) == StripParts(replace(authors_line, " and ", ","))

split_authors(authors_line) ==
    StripParts(replace(replace(authors_line, " and ", ","), ";", ","))

split_keywords(keywords_line) == StripParts(replace(keywords_line, ";", ","))

\* \s*[:\-]\s*(.+) from position p on: the span of group 1, or None.
\* The second \s* is greedy; when the whitespace runs to the end of the string it gives
\* characters back until (.+) has one that is not a newline.
GroupAfterLabel(s, p) ==
    LET Stop(start) == Min({e \in start..Len(s) : e = Len(s) \/ Ch(s, e + 1) = "\n"})
        Group(start) ==
            IF start = 0 THEN None ELSE Some([from |-> start, to |-> Stop(start)])
        Start(k, back) == IF k <= Len(s) THEN k ELSE IF back # {} THEN Max(back) ELSE 0
        After(q) ==
            IF Ch(s, q) \notin {":", "-"} THEN None
            ELSE Group(Start(SkipWs(s, q + 1), {m \in (q + 1)..Len(s) : Ch(s, m) # "\n"}))
    IN  After(SkipWs(s, p))

\* position after the label word with its optional plural s, or 0 when it is not at i
LabelEnd(s, i, word) ==
    IF ~MatchesNoCase(s, i, word) THEN 0
    ELSE IF LowerCh(Ch(s, i + Len(word))) = "s" THEN i + Len(word) + 1
    ELSE i + Len(word)

\* re.search(<label>s?\s*[:\-]\s*(.+), s, re.IGNORECASE) for the alternatives in words:
\* group 1 of the leftmost match, or None
SearchLabel(s, words) ==
    LET GroupOf(i, ok) ==
            IF ok = {} THEN None
            ELSE GroupAfterLabel(s, LabelEnd(s, i, CHOOSE w \in ok : TRUE))
        GroupAt(i) ==
            GroupOf(i, {w \in words : LabelEnd(s, i, w) # 0
                                      /\ GroupAfterLabel(s, LabelEnd(s, i, w)) # None})
        Cut(g) == Some(SubSeq(s, g.from, g.to))
        Leftmost(hits) == IF hits = {} THEN None ELSE Cut(The(GroupAt(Min(hits))))
    IN  Leftmost({i \in 1..Len(s) : GroupAt(i) # None})

extract_keywords(text) ==
    LET Keywords(match) ==
            IF match = None THEN <<>> ELSE split_keywords(splitlines(The(match))[1])
    IN  Keywords(SearchLabel(text, {"keyword", "index term"}))

extract_authors(lines) ==
    LET Authors(matches) ==
            LET hit == {i \in 1..Len(matches) : matches[i] # None}
            IN  IF hit # {} THEN split_authors(The(matches[Min(hit)]))
                ELSE IF Len(lines) > 1 /\ Len(lines[2]) <= 120 THEN split_authors(lines[2])
                ELSE <<>>
    IN  Authors([i \in 1..(IF Len(lines) < 5 THEN Len(lines) ELSE 5) |->
                    SearchLabel(lines[i], {"author"})])

extract_title(lines) == IF lines = <<>> THEN None ELSE Some(lines[1])

\* (?:\n\s*\n|\bIntroduction\b|\bKeywords\b) matches at position t
AbstractEndAt(s, t) ==
    \/ /\ Ch(s, t) = "\n"
       /\ \E u \in (t + 1)..Len(s) :
             Ch(s, u) = "\n" /\ \A w \in (t + 1)..(u - 1) : Ch(s, w) \in Whitespace
    \/ Boundary(s, t) /\ MatchesNoCase(s, t, "introduction") /\ Boundary(s, t + 12)
    \/ Boundary(s, t) /\ MatchesNoCase(s, t, "keywords") /\ Boundary(s, t + 8)

\* \bAbstract\b\s*[:\-]?\s*(.+?)<end> with the label at position i: the span of group 1.
\* The greedy prefix is tried longest first, so the group starts at the latest position
\* that still has an end after it, and the lazy group stops at the first end.
AbstractGroupAt(s, i) ==
    LET Span(ends, g) == Some([from |-> g, to |-> Min({t \in ends : t > g}) - 1])
        Latest(ends, starts) == IF starts = {} THEN None ELSE Span(ends, Max(starts))
        Starts(p, latest, ends) == Latest(ends, {g \in p..latest : \E t \in ends : t > g})
        After(p, q) ==
            Starts(p, IF Ch(s, q) \in {":", "-"} THEN SkipWs(s, q + 1) ELSE q,
                   {t \in 1..Len(s) : AbstractEndAt(s, t)})
    IN  IF ~(Boundary(s, i) /\ MatchesNoCase(s, i, "abstract") /\ Boundary(s, i + 8))
        THEN None
        ELSE After(i + 8, SkipWs(s, i + 8))

extract_abstract(text) ==
    LET Group(g) == normalize_whitespace(Some(SubSeq(text, g.from, g.to)))
        Leftmost(groups) ==
            LET hits == {i \in 1..Len(text) : groups[i] # None}
            IN  IF hits = {} THEN None ELSE Group(The(groups[Min(hits)]))
    IN  Leftmost([i \in 1..Len(text) |-> AbstractGroupAt(text, i)])

\* text[:500].strip() if text else None
SnippetLen == 500
Snippet(text) ==
    IF text = "" THEN None
    ELSE Some(strip(SubSeq(text, 1, IF Len(text) < SnippetLen THEN Len(text) ELSE SnippetLen)))

\* [line.strip() for line in text.splitlines() if line.strip()]
NonBlankLines(text) ==
    LET Stripped(raw) == [k \in 1..Len(raw) |-> strip(raw[k])]
        NonEmpty(line) == line # ""
    IN  SelectSeq(Stripped(splitlines(text)), NonEmpty)

\* authors or None
OrNone(list) == IF list = <<>> THEN None ELSE Some(list)

extract_metadata(text) ==
    LET Fields(lines) ==
            [title |-> extract_title(lines),
             document_type |-> None,
             publication_date |-> None,
             journal_title |-> None,
             book_title |-> None,
             publisher |-> None,
             authors |-> OrNone(extract_authors(lines)),
             affiliations |-> None,
             countries |-> None,
             abstract |-> extract_abstract(text),
             year |-> extract_year(text),
             keywords |-> OrNone(extract_keywords(text)),
             raw_text_snippet |-> Snippet(text)]
    IN  Fields(NonBlankLines(text))

(***************************************************************************)
(* The parsed service response: an ElementTree element is a record         *)
(* [tag, attrib, text, tail, children]; attrib holds the attributes the    *)
(* code reads, each None when the element does not carry it.               *)
(***************************************************************************)
NoAttrib == [type |-> None, when |-> None, level |-> None]

El(tag, text, children) ==
    [tag |-> tag, attrib |-> NoAttrib, text |-> text, tail |-> None, children |-> children]

Attr(el, name, value) == [el EXCEPT !.attrib[name] = Some(value)]

\* a Python truth test of an Optional[str]
Truthy(o) == o # None /\ o # Some("")

\* a or b, for Optional[str]
Or(a, b) == IF Truthy(a) THEN a ELSE b

\* Element.iter() without the element itself: the descendants in document order
RECURSIVE DescendantsOfAll(_)
DescendantsOfAll(els) ==
    IF els = <<>> THEN <<>>
    ELSE <<Head(els)>> \o DescendantsOfAll(Head(els).children) \o DescendantsOfAll(Tail(els))

Descendants(el) == DescendantsOfAll(el.children)

\* path steps: //tag, /tag and /tag[@level='v']
D(tag) == [axis |-> "descendant", tag |-> tag, level |-> None]
C(tag) == [axis |-> "child", tag |-> tag, level |-> None]
CL(tag, level) == [axis |-> "child", tag |-> tag, level |-> Some(level)]

\* one step of a path from one context element
Select(el, step) ==
    LET Hit(e) == e.tag = step.tag /\ (step.level = None \/ e.attrib.level = step.level)
    IN  SelectSeq(IF step.axis = "descendant" THEN Descendants(el) ELSE el.children, Hit)

RECURSIVE SelectFromAll(_, _)
SelectFromAll(els, step) ==
    IF els = <<>> THEN <<>>
    ELSE Select(Head(els), step) \o SelectFromAll(Tail(els), step)

\* Element.findall(path)
RECURSIVE FindFrom(_, _)
FindFrom(els, path) ==
    IF path = <<>> THEN els ELSE FindFrom(SelectFromAll(els, Head(path)), Tail(path))

findall(el, path) == FindFrom(<<el>>, path)

\* Element.find(path): Some(element) or None
find(el, path) ==
    LET First(r) == IF r = <<>> THEN None ELSE Some(r[1])
    IN  First(findall(el, path))

\* Element.findtext(path): None without a match, "" for a match without text
findtext(el, path) ==
    LET Text(r) == IF r = <<>> THEN None
                   ELSE IF r[1].text = None THEN Some("") ELSE r[1].text
    IN  Text(findall(el, path))

\* list(Element.itertext())
RECURSIVE itertext(_)
RECURSIVE itertextOfAll(_)
itertextOfAll(els) ==
    IF els = <<>> THEN <<>>
    ELSE itertext(Head(els))
         \o (IF Truthy(Head(els).tail) THEN <<The(Head(els).tail)>> ELSE <<>>)
         \o itertextOfAll(Tail(els))

itertext(el) ==
    (IF Truthy(el.text) THEN <<The(el.text)>> ELSE <<>>) \o itertextOfAll(el.children)

\* element_text of an Optional element
element_text(element) ==
    IF element = None THEN None
    ELSE normalize_whitespace(Some(join(" ", itertext(The(element)))))

(***************************************************************************)
(* Ordering of strings, for sorted(set(...)): the printable ASCII           *)
(* characters (without the backquote) in code point order                  *)
(***************************************************************************)
Ascii ==
    " !\"#$%&'(" \o ")*+,-./0123456789:;<=>?@" \o UpperCase \o "[\\]^_" \o LowerCase \o "{|}~"

\* the rank of a character in code point order
Ord(c) == CHOOSE i \in 1..Len(Ascii) : Ch(Ascii, i) = c

RECURSIVE StrLess(_, _)
StrLess(a, b) ==
    IF b = "" THEN FALSE
    ELSE IF a = "" THEN TRUE
    ELSE IF Ch(a, 1) # Ch(b, 1) THEN Ord(Ch(a, 1)) < Ord(Ch(b, 1))
    ELSE StrLess(SubSeq(a, 2, Len(a)), SubSeq(b, 2, Len(b)))

\* sorted(set(list))
SortedSet(list) ==
    LET S == Range(list)
    IN  [k \in 1..Cardinality(S) |->
            CHOOSE x \in S : Cardinality({y \in S : StrLess(y, x)}) = k - 1]

(***************************************************************************)
(* Structured-service extractor                                            *)
(***************************************************************************)
\* the texts of the elements that have one
Texts(els) ==
    LET HasText(e) == Truthy(e.text)
        with == SelectSeq(els, HasText)
    IN  [k \in 1..Len(with) |-> The(with[k].text)]

parse_grobid_author(author_el) ==
    LET NonEmpty(part) == part # ""
        Surname(found) == IF Truthy(found) THEN The(found) ELSE ""
        OrNothing(full_name) == IF full_name = "" THEN None ELSE Some(full_name)
        FullName(forename, surname) ==
            OrNothing(strip(join(" ", SelectSeq(<<forename, surname>>, NonEmpty))))
    IN  FullName(join(" ", Texts(findall(author_el, <<D("forename")>>))),
                 Surname(findtext(author_el, <<D("surname")>>)))

DocumentTypes == {"article", "review", "book", "chapter", "conference", "preprint"}

extract_document_type(root) ==
    LET IsType(t) == Len(split_ws(t)) <= 4 /\ lower(strip(t)) \in DocumentTypes
        BiblType(bibl_struct) ==
            IF bibl_struct = None THEN None ELSE The(bibl_struct).attrib.type
        Type(bibl_type, codes, typed) ==
            IF Truthy(bibl_type) THEN normalize_whitespace(bibl_type)
            ELSE IF codes # <<>> THEN normalize_whitespace(Some(codes[1]))
            ELSE IF typed # <<>> THEN Some(lower(strip(typed[1])))
            ELSE None
    IN  Type(BiblType(find(root, <<D("biblStruct")>>)),
             Texts(findall(root, <<D("textClass"), D("classCode")>>)),
             SelectSeq(Texts(findall(root, <<D("textClass"), D("keywords"), D("term")>>)),
                       IsType))

\* the values of the Some members of a list of Optional values
Present(opts) ==
    LET IsSome(o) == o # None
        some == SelectSeq(opts, IsSome)
    IN  [k \in 1..Len(some) |-> The(some[k])]

\* the text of one affiliation element, or None
AffiliationText(aff) ==
    LET Joined(parts) ==
            IF parts = <<>> THEN None ELSE normalize_whitespace(Some(join(", ", parts)))
        Parts(orgs) ==
            Present([k \in 1..Len(orgs) |-> element_text(Some(orgs[k]))]
                    \o <<element_text(find(aff, <<D("address")>>))>>)
    IN  Joined(Parts(findall(aff, <<D("orgName")>>)))

extract_affiliations(author_el) ==
    LET Each(affs) == Present([k \in 1..Len(affs) |-> AffiliationText(affs[k])])
    IN  Each(findall(author_el, <<D("affiliation")>>))

extract_countries(author_el) ==
    LET Each(els) == Present([k \in 1..Len(els) |-> normalize_whitespace(els[k].text)])
    IN  Each(findall(author_el, <<D("affiliation"), D("address"), D("country")>>))

\* the concatenation of a list of lists
RECURSIVE Concat(_)
Concat(lists) == IF lists = <<>> THEN <<>> ELSE Head(lists) \o Concat(Tail(lists))

\* an imprint loop that sets year only when the first loop left none
RECURSIVE ImprintDatesKeepYear(_, _)
ImprintDatesKeepYear(date_els, year) ==
    LET Node(publication_date) ==
            IF publication_date = ValueError THEN ValueError
            ELSE IF publication_date # None
            THEN Some([year |-> IF year = None THEN Some(The(publication_date).y) ELSE year,
                       publication_date |-> publication_date])
            ELSE ImprintDatesKeepYear(Tail(date_els), year)
    IN  IF date_els = <<>> THEN Some([year |-> year, publication_date |-> None])
        ELSE Node(parse_publication_date(Or(Head(date_els).attrib.when,
                                            Head(date_els).text)))

\* the loop over the imprint date nodes, entered with the year found so far
RECURSIVE ImprintDates(_, _)
ImprintDates(date_els, year) ==
    LET Node(publication_date) ==
            IF publication_date = ValueError THEN ValueError
            ELSE IF publication_date # None
            THEN Some([year |-> Some(The(publication_date).y),
                       publication_date |-> publication_date])
            ELSE ImprintDates(Tail(date_els), year)
    IN  IF date_els = <<>> THEN Some([year |-> year, publication_date |-> None])
        ELSE Node(parse_publication_date(Or(Head(date_els).attrib.when,
                                            Head(date_els).text)))

\* the loop over the publication statement date nodes: what it leaves in year and
\* publication_date, or the ValueError that parse_publication_date raised
RECURSIVE PublicationStmtDates(_)
PublicationStmtDates(date_els) ==
    LET YearOf(value) == IF Truthy(value) THEN extract_year(The(value)) ELSE None
        Node(publication_date, from_text, from_when) ==
            IF publication_date = ValueError THEN ValueError
            ELSE IF publication_date # None
            THEN Some([year |-> Some(The(publication_date).y),
                       publication_date |-> publication_date])
            ELSE IF from_text # None
            THEN Some([year |-> from_text, publication_date |-> None])
            ELSE IF from_when # None
            THEN Some([year |-> from_when, publication_date |-> None])
            ELSE PublicationStmtDates(Tail(date_els))
        At(date_el) ==
            Node(parse_publication_date(Or(date_el.attrib.when, date_el.text)),
                 YearOf(date_el.text), YearOf(date_el.attrib.when))
    IN  IF date_els = <<>> THEN Some([year |-> None, publication_date |-> None])
        ELSE At(Head(date_els))

\* year and publication_date of a parsed response
GrobidDates(root) ==
    LET Imprint(stmt) ==
            IF stmt = ValueError THEN ValueError
            ELSE IF The(stmt).publication_date # None THEN stmt
            ELSE ImprintDates(findall(root, <<D("imprint"), D("date")>>), The(stmt).year)
    IN  Imprint(PublicationStmtDates(findall(root, <<D("publicationStmt"), D("date")>>)))

\* authors, affiliations and countries collected from a list of author elements
AuthorData(author_els) ==
    [authors |-> Present([k \in 1..Len(author_els) |-> parse_grobid_author(author_els[k])]),
     affiliations |->
         Concat([k \in 1..Len(author_els) |-> extract_affiliations(author_els[k])]),
     countries |-> Concat([k \in 1..Len(author_els) |-> extract_countries(author_els[k])])]

\* the record built from a parsed response, or the ValueError raised on the way
GrobidRecord(root) ==
    LET NonEmpty(t) == t # ""
        Keywords(terms) == SelectSeq([k \in 1..Len(terms) |-> strip(terms[k])], NonEmpty)
        BookTitle(journal_title, level_m) ==
            IF ~Truthy(journal_title) /\ ~Truthy(level_m)
            THEN findtext(root, <<D("monogr"), C("title")>>)
            ELSE level_m
        Publisher(stmt_publisher) ==
            IF ~Truthy(stmt_publisher)
            THEN findtext(root, <<D("monogr"), C("imprint"), C("publisher")>>)
            ELSE stmt_publisher
        People(source, stmt) ==
            IF source.authors = <<>>
            THEN [authors |-> stmt.authors,
                  affiliations |-> source.affiliations \o stmt.affiliations,
                  countries |-> source.countries \o stmt.countries]
            ELSE source
        Fields(people, dates, journal_title) ==
            IF dates = ValueError THEN ValueError
            ELSE Some([title |-> findtext(root, <<D("titleStmt"), C("title")>>),
                       document_type |-> extract_document_type(root),
                       publication_date |-> The(dates).publication_date,
                       journal_title |-> journal_title,
                       book_title |->
                           BookTitle(journal_title,
                                     findtext(root, <<D("monogr"), CL("title", "m")>>)),
                       publisher |->
                           Publisher(findtext(root, <<D("publicationStmt"), C("publisher")>>)),
                       authors |-> OrNone(people.authors),
                       affiliations |-> OrNone(SortedSet(people.affiliations)),
                       countries |-> OrNone(SortedSet(people.countries)),
                       abstract |->
                           element_text(find(root, <<D("profileDesc"), C("abstract")>>)),
                       year |-> The(dates).year,
                       keywords |->
                           OrNone(Keywords(Texts(findall(root, <<D("keywords"), D("term")>>))))])
    IN  Fields(People(AuthorData(findall(root, <<D("sourceDesc"), D("author")>>)),
                      AuthorData(findall(root, <<D("titleStmt"), D("author")>>))),
               GrobidDates(root),
               findtext(root, <<D("monogr"), CL("title", "j")>>))

\* What the service call came to:
\*   [kind |-> "RequestException"]  transport error, timeout or error status
\*   [kind |-> "ParseError"]        a success status with a body that is not well-formed
\*   [kind |-> "xml", root |-> e]   a success status with a body that parses to e
\* The result is None, Some(record) or a raised ValueError.
extract_metadata_grobid(response) ==
    IF response.kind = "RequestException" THEN None
    ELSE IF response.kind = "ParseError" THEN None
    ELSE GrobidRecord(response.root)

(***************************************************************************)
(* Text extractor and availability check                                   *)
(***************************************************************************)
MaxPages == 2

\* A PDF file is [readable, pages]: PdfReader raises PdfReadError on an unreadable one;
\* pages holds what extract_text() returns for each page (None, or Some(text)).
extract_text_from_pdf(pdf) ==
    IF ~pdf.readable THEN ""
    ELSE LET n == IF Len(pdf.pages) < MaxPages THEN Len(pdf.pages) ELSE MaxPages
             first == SubSeq(pdf.pages, 1, n)
             HasText(page_text) == Truthy(page_text)
             text_chunks == SelectSeq(first, HasText)
         IN  join("\n", [k \in 1..Len(text_chunks) |-> The(text_chunks[k])])

\* the probe came to "ok", "error status" or "RequestException"
grobid_is_available(probe) == probe = "ok"

(***************************************************************************)
(* Persistence writer: the papers table is a set of rows                   *)
(***************************************************************************)
Row(file_path, metadata, now) ==
    [file_path |-> file_path,
     title |-> metadata.title,
     document_type |-> metadata.document_type,
     publication_date |-> metadata.publication_date,
     journal_title |-> metadata.journal_title,
     book_title |-> metadata.book_title,
     publisher |-> metadata.publisher,
     authors |-> metadata.authors,
     affiliations |-> metadata.affiliations,
     countries |-> metadata.countries,
     abstract |-> metadata.abstract,
     year |-> metadata.year,
     keywords |-> metadata.keywords,
     raw_text_snippet |-> metadata.raw_text_snippet,
     processed_at |-> now,
     updated_at |-> now]

MetadataFields ==
    {"title", "document_type", "publication_date", "journal_title", "book_title",
     "publisher", "authors", "affiliations", "countries", "abstract", "year", "keywords",
     "raw_text_snippet"}

\* an insert without the ON CONFLICT clause
upsert_paper_insert_only(table, file_path, metadata, now) ==
    table \cup {Row(file_path, metadata, now)}

\* an ON CONFLICT clause that keeps the stored value where the new one is NULL
upsert_paper_coalesce(table, file_path, metadata, now) ==
    LET new == Row(file_path, metadata, now)
        Merge(old) == [k \in DOMAIN new |->
                          IF k \in MetadataFields /\ new[k] = None THEN old[k] ELSE new[k]]
    IN  IF \E r \in table : r.file_path = file_path
        THEN {IF r.file_path = file_path THEN Merge(r) ELSE r : r \in table}
        ELSE table \cup {new}

\* INSERT ... ON CONFLICT (file_path) DO UPDATE SET <every column> = EXCLUDED.<column>
upsert_paper(table, file_path, metadata, now) ==
    IF \E r \in table : r.file_path = file_path
    THEN {IF r.file_path = file_path THEN Row(file_path, metadata, now) ELSE r : r \in table}
    ELSE table \cup {Row(file_path, metadata, now)}

(***************************************************************************)
(* Inputs                                                                  *)
(***************************************************************************)
\* invocations of main() over the same directory
MaxRuns == 2
\* date nodes in the publication statement of a generated response
MaxDateNodes == 2
\* date nodes in the imprint of a generated response
MaxImprintNodes == 1
\* lines of a generated text
MaxLines == 2

\* s repeated n times
RECURSIVE Rep(_, _)
Rep(s, n) ==
    IF n = 0 THEN ""
    ELSE IF n % 2 = 0 THEN LET h == Rep(s, n \div 2) IN h \o h
    ELSE s \o Rep(s, n - 1)

Page1 ==
    "Deep Nets for Parsing\nJane Doe and John Smith\n\nAbstract: We parse.\n\n"
    \o "Keywords: nets; parsing\n"
Page2 == "Introduction\nPublished 2021.\n"
Page3 == "Appendix 1999"

Pdf(readable, pages) == [readable |-> readable, pages |-> pages]

\* the files the directories below are made of
FileSystem ==
    [path \in {"a.pdf", "b.pdf", "c.pdf", "d.pdf"} |->
        CASE path = "a.pdf" -> Pdf(TRUE, <<Some(Page1), Some(Page2), Some(Page3)>>)
          [] path = "b.pdf" -> Pdf(FALSE, <<>>)
          [] path = "c.pdf" -> Pdf(TRUE, <<None, Some(" \n\t ")>>)
          [] path = "d.pdf" -> Pdf(TRUE, <<Some("  " \o Rep("lorem ", 100))>>)]

Paths == DOMAIN FileSystem

Directory(exists, files) == [exists |-> exists, files |-> files]

Directories ==
    {Directory(FALSE, <<>>), Directory(TRUE, <<>>), Directory(TRUE, <<"a.pdf">>),
     Directory(TRUE, <<"a.pdf", "b.pdf">>), Directory(TRUE, <<"c.pdf", "d.pdf">>),
     Directory(TRUE, <<"d.pdf", "b.pdf", "a.pdf">>)}

Probes == {"ok", "error status", "RequestException"}

TeiDoc(title_stmt, publication_stmt, source_desc, profile_desc) ==
    El("TEI", None,
       <<El("teiHeader", None,
            <<El("fileDesc", None,
                 <<El("titleStmt", None, title_stmt),
                   El("publicationStmt", None, publication_stmt),
                   El("sourceDesc", None, source_desc)>>),
              El("profileDesc", None, profile_desc)>>)>>)

Txt(tag, text) == El(tag, Some(text), <<>>)

EmptyTei == El("TEI", None, <<El("teiHeader", None, <<>>)>>)

BlankTitleTei == TeiDoc(<<El("title", None, <<>>)>>, <<>>, <<>>, <<>>)

BadDateTei ==
    TeiDoc(<<Txt("title", "Deep Nets")>>,
           <<Attr(El("date", None, <<>>), "when", "2021-13-45")>>, <<>>, <<>>)

RichAuthor(forename, surname, org, country) ==
    El("author", None,
       <<El("persName", None, <<Txt("forename", forename), Txt("surname", surname)>>),
         El("affiliation", None,
            <<Txt("orgName", org),
              El("address", None, <<Txt("country", country)>>)>>)>>)

RichTei ==
    TeiDoc(<<Attr(Txt("title", "Deep Nets for Structured Parsing"), "level", "a")>>,
           <<Txt("publisher", "ACM"),
             Attr(Txt("date", "June 2021"), "when", "2021-06")>>,
           <<Attr(El("biblStruct", None,
                     <<El("analytic", None,
                          <<RichAuthor("Jane", "Doe", "MIT", "USA"),
                            RichAuthor("John", "Smith", "ETH", "Switzerland"),
                            RichAuthor("Ann", "Lee", "MIT", "USA")>>),
                       El("monogr", None,
                          <<Attr(Txt("title", "J. Parsing"), "level", "j"),
                            El("imprint", None,
                               <<Attr(Txt("date", "2021"), "when", "2021")>>)>>)>>),
                  "type", "article")>>,
           <<El("textClass", None,
                <<El("keywords", None, <<Txt("term", "nets"), Txt("term", " parsing ")>>)>>),
             El("abstract", None, <<Txt("p", "We  parse\nheaders.")>>)>>)

RequestException == [kind |-> "RequestException"]
ParseError == [kind |-> "ParseError"]
Xml(root) == [kind |-> "xml", root |-> root]

Responses ==
    {RequestException, ParseError, Xml(EmptyTei), Xml(BlankTitleTei), Xml(BadDateTei),
     Xml(RichTei)}

(***************************************************************************)
(* main(): the per-document selection                                      *)
(***************************************************************************)
\* metadata[key] = value
SetItem(metadata, key, value) ==
    [k \in DOMAIN metadata \cup {key} |-> IF k = key THEN value ELSE metadata[k]]

\* a selection that also falls back when every field of the structured record is None
SelectMetadataWhenFilled(structured, text) ==
    IF structured = None \/ \A k \in DOMAIN The(structured) : The(structured)[k] = None
    THEN extract_metadata(text)
    ELSE The(structured)

\* if not metadata: metadata = extract_metadata(text)
\* (a dict with keys is true whatever its values are)
SelectMetadata(structured, text) ==
    IF structured = None THEN extract_metadata(text) ELSE The(structured)

\* the record of one document after the snippet has been set
FinalMetadata(structured, text) ==
    SetItem(SelectMetadata(structured, text), "raw_text_snippet", Snippet(text))

\* The extractors are functions of the file and of the response alone; these tables
\* hold their values for the files and responses of the model.
TextOf == [path \in Paths |-> extract_text_from_pdf(FileSystem[path])]

StructuredOf == [response \in Responses |-> extract_metadata_grobid(response)]

HeuristicOf == [path \in Paths |-> extract_metadata(TextOf[path])]

\* Lines 401-407 for one file: call is None when the service is not used and
\* Some(response) when it is; the value is Some(record), or the ValueError raised.
MetadataOf ==
    [path \in Paths |->
        [call \in {None} \cup {Some(r) : r \in Responses} |->
            LET Final(structured) ==
                    IF structured = ValueError THEN ValueError
                    ELSE Some(FinalMetadata(structured, TextOf[path]))
            IN  Final(IF call = None THEN None ELSE extract_metadata_grobid(The(call)))]]

\* a use_grobid that forgets --no-grobid
UseGrobidIgnoringFlag(no_grobid, probe) == grobid_is_available(probe)

\* use_grobid: the probe is evaluated only when --no-grobid is absent
UseGrobid(no_grobid, probe) == ~no_grobid /\ grobid_is_available(probe)

(***************************************************************************)
(* main()                                                                  *)
(***************************************************************************)
NoArgs == [dry_run |-> FALSE, no_grobid |-> FALSE]

\* what an invocation has done so far; prev is the last invocation that committed
NewHist(table, prev) ==
    [checks |-> 0,
     probe |-> None,
     calls |-> [p \in Paths |-> 0],
     commits |-> 0,
     seen |-> [p \in Paths |-> None],
     db0 |-> table,
     prev |-> prev]

Init ==
    /\ fs \in Directories
    /\ pdf_files = <<>>
    /\ run = 1
    /\ pc = "start"
    /\ args = NoArgs
    /\ conn = "none"
    /\ use_grobid = FALSE
    /\ idx = 0
    /\ processed = 0
    /\ txn = {}
    /\ db = {}
    /\ clock = 1
    /\ stdout = <<>>
    /\ hist = NewHist({}, None)
    /\ fin = ""
    /\ fout = ""

\* lines 374-389: the arguments, the directory test, the discovery of the PDF files
Start ==
    /\ pc = "start"
    /\ \E dry_run \in BOOLEAN, no_grobid \in BOOLEAN :
          args' = [dry_run |-> dry_run, no_grobid |-> no_grobid]
    /\ IF ~fs.exists
       THEN /\ pc' = "exit"
            /\ UNCHANGED <<pdf_files, stdout>>
       ELSE /\ pdf_files' = fs.files
            /\ IF fs.files = <<>>
               THEN pc' = "done" /\ stdout' = <<"No PDF files found.">>
               ELSE pc' = "connect" /\ UNCHANGED stdout
    /\ UNCHANGED <<fs, run, conn, use_grobid, idx, processed, txn, db, clock, hist,
                   fin, fout>>

\* lines 391-393
Connect ==
    /\ pc = "connect"
    /\ conn' = IF args.dry_run THEN "none" ELSE "open"
    /\ pc' = "probe"
    /\ UNCHANGED <<fs, pdf_files, run, args, use_grobid, idx, processed, txn, db, clock,
                   stdout, hist, fin, fout>>

\* lines 395-397
CheckAvailability ==
    /\ pc = "probe"
    /\ \E probe \in Probes :
          /\ use_grobid' = UseGrobid(args.no_grobid, probe)
          /\ hist' = IF args.no_grobid THEN hist
                     ELSE [hist EXCEPT !.checks = @ + 1, !.probe = Some(probe)]
    /\ pc' = "loop"
    /\ UNCHANGED <<fs, pdf_files, run, args, conn, idx, processed, txn, db, clock,
                   stdout, fin, fout>>

\* lines 400-414: one iteration of the loop. A ValueError leaves main(): the process
\* ends with the transaction never committed.
ProcessDocument ==
    /\ pc = "loop"
    /\ idx < Len(pdf_files)
    /\ \E response \in Responses :
          LET pdf_path == pdf_files[idx + 1]
              call == IF use_grobid THEN Some(response) ELSE None
              called == [hist EXCEPT !.calls[pdf_path] = @ + (IF use_grobid THEN 1 ELSE 0)]
              Raised ==
                  /\ pc' = "crashed"
                  /\ conn' = IF conn = "open" THEN "closed" ELSE conn
                  /\ txn' = db
                  /\ hist' = called
                  /\ UNCHANGED <<idx, processed, stdout>>
              Recorded(metadata) ==
                  /\ hist' = [called EXCEPT !.seen[pdf_path] =
                                 Some([response |-> call, metadata |-> metadata])]
                  /\ idx' = idx + 1
                  /\ processed' = processed + 1
                  /\ IF args.dry_run
                     THEN /\ stdout' = Append(stdout, [dry_run |-> pdf_path,
                                                       metadata |-> metadata])
                          /\ txn' = txn
                     ELSE /\ txn' = upsert_paper(txn, pdf_path, metadata, clock)
                          /\ stdout' = stdout
                  /\ UNCHANGED <<pc, conn>>
              Body(result) == IF result = ValueError THEN Raised ELSE Recorded(The(result))
          IN  Body(MetadataOf[pdf_path][call])
    /\ UNCHANGED <<fs, pdf_files, run, args, use_grobid, db, clock, fin, fout>>

\* the end of main() with the close() but without the commit()
FinishWithoutCommit ==
    /\ pc = "loop"
    /\ idx = Len(pdf_files)
    /\ conn' = IF conn = "open" THEN "closed" ELSE conn
    /\ txn' = db
    /\ stdout' = Append(stdout, [processed |-> processed])
    /\ pc' = "done"
    /\ UNCHANGED <<fs, pdf_files, run, args, use_grobid, idx, processed, db, clock, hist,
                   fin, fout>>

\* lines 416-420
Finish ==
    /\ pc = "loop"
    /\ idx = Len(pdf_files)
    /\ IF conn = "open"
       THEN /\ db' = txn
            /\ conn' = "closed"
            /\ hist' = [hist EXCEPT !.commits = @ + 1]
       ELSE UNCHANGED <<db, conn, hist>>
    /\ stdout' = Append(stdout, [processed |-> processed])
    /\ pc' = "done"
    /\ UNCHANGED <<fs, pdf_files, run, args, use_grobid, idx, processed, txn, clock,
                   fin, fout>>

\* the program is started again on the same directory
Invoke ==
    /\ pc \in {"done", "crashed", "exit"}
    /\ run < MaxRuns
    /\ run' = run + 1
    /\ pc' = "start"
    /\ args' = NoArgs
    /\ conn' = "none"
    /\ use_grobid' = FALSE
    /\ idx' = 0
    /\ processed' = 0
    /\ pdf_files' = <<>>
    /\ txn' = db
    /\ clock' = clock + 1
    /\ stdout' = <<>>
    /\ hist' = NewHist(db, IF hist.commits > 0
                           THEN Some([use_grobid |-> use_grobid, seen |-> hist.seen,
                                      db |-> db])
                           ELSE hist.prev)
    /\ UNCHANGED <<fs, db, fin, fout>>

Next == Start \/ Connect \/ CheckAvailability \/ ProcessDocument \/ Finish \/ Invoke

Spec == Init /\ [][Next]_vars

(***************************************************************************)
(* The extractors applied to generated inputs                              *)
(***************************************************************************)
\* all sequences over S of length at most n
RECURSIVE SeqsUpTo(_, _)
SeqsUpTo(S, n) ==
    IF n = 0 THEN {<<>>}
    ELSE LET shorter == SeqsUpTo(S, n - 1)
         IN  shorter \cup {Append(q, x) : q \in shorter, x \in S}

DateNodes ==
    {Attr(Txt("date", "1 May 2020"), "when", "2020-05-01"),
     Attr(Txt("date", "2019"), "when", "n.d."),
     Txt("date", "2018-07"),
     Txt("date", "1997"),
     Txt("date", "undated"),
     Attr(El("date", None, <<>>), "when", "2021-13-45")}

ImprintNodes ==
    {Attr(Txt("date", "2020"), "when", "2020-05-01"),
     Txt("date", "2016"),
     Txt("date", "in press")}

\* a response with the given date nodes in its two sections
DatedTei(publication_dates, imprint_dates) ==
    TeiDoc(<<Txt("title", "Deep Nets")>>, publication_dates,
           <<El("biblStruct", None,
                <<El("monogr", None, <<El("imprint", None, imprint_dates)>>)>>)>>,
           <<>>)

TextLines ==
    {"Deep Nets for Parsing",
     "Jane Doe and John Smith",
     "A. Roe; B. Poe AND C. Low, D. Moe",
     "Authors: X. Yu, Alexander And and Z. Zed;",
     "by AUTHOR - Q. Quine and  and R. Roe",
     "Authors:",
     "Keywords:" \o VT \o "parsing;" \o US \o "nets" \o RS \o "J. Tail" \o FS \o GS,
     Rep("x", 121)}

Numbered(n) == [k \in 1..n |-> "Section " \o Ch("123456789", k)]

ExtractInputs ==
    {Xml(DatedTei(pub, imp)) : pub \in SeqsUpTo(DateNodes, MaxDateNodes),
                               imp \in SeqsUpTo(ImprintNodes, MaxImprintNodes)}
    \cup {Xml(RichTei), Xml(EmptyTei), Xml(BlankTitleTei), RequestException, ParseError}
    \cup {[kind |-> "text", text |-> join("\n", lines)] :
             lines \in SeqsUpTo(TextLines, MaxLines)}
    \cup {[kind |-> "text", text |-> join("\n", Numbered(n) \o <<"Authors: E. Late">>)] :
             n \in 4..5}
    \cup {[kind |-> "text", text |-> TextOf[path]] : path \in Paths}

InitExtract ==
    /\ fs = Directory(FALSE, <<>>)
    /\ pdf_files = <<>>
    /\ run = 1
    /\ pc = "input"
    /\ args = NoArgs
    /\ conn = "none"
    /\ use_grobid = FALSE
    /\ idx = 0
    /\ processed = 0
    /\ txn = {}
    /\ db = {}
    /\ clock = 1
    /\ stdout = <<>>
    /\ hist = NewHist({}, None)
    /\ fin \in ExtractInputs
    /\ fout = ""

ApplyHeuristic ==
    /\ pc = "input"
    /\ fin.kind = "text"
    /\ fout' = extract_metadata(fin.text)
    /\ pc' = "output"
    /\ UNCHANGED <<fs, pdf_files, run, args, conn, use_grobid, idx, processed, txn, db,
                   clock, stdout, hist, fin>>

ApplyGrobid ==
    /\ pc = "input"
    /\ fin.kind # "text"
    /\ fout' = extract_metadata_grobid(fin)
    /\ pc' = "output"
    /\ UNCHANGED <<fs, pdf_files, run, args, conn, use_grobid, idx, processed, txn, db,
                   clock, stdout, hist, fin>>

NextExtract == ApplyHeuristic \/ ApplyGrobid

SpecExtract == InitExtract /\ [][NextExtract]_vars

(***************************************************************************)
(* Properties                                                              *)
(***************************************************************************)
RowsOf(table, path) == {r \in table : r.file_path = path}

\* the documents the loop of this invocation has finished
Finished(path) == hist.seen[path] # None

\* the structured result behind the record of a finished document
StructuredSeen(seen) == IF seen.response = None THEN None ELSE StructuredOf[The(seen.response)]

StructuredFields == MetadataFields \ {"raw_text_snippet"}

\* the trimmed first 500 characters of the text of a file, None for an empty text
TrimmedStart ==
    [path \in Paths |->
        LET text == TextOf[path]
        IN  IF text = "" THEN None
            ELSE Some(strip(SubSeq(text, 1, Min({Len(text), SnippetLen}))))]

\* C1: the structured extractor is called only after a successful availability check;
\* a record it returns, even an all-absent one, supplies the fields of the final
\* record; the heuristic record is used exactly when the service was not called or
\* returned no result; the snippet is always the trimmed first 500 characters of the
\* extracted text, None when the text is empty. Every document is decided by its own
\* text and its own response.
SelectorRule ==
    \A path \in Paths :
        Finished(path) =>
            LET seen == The(hist.seen[path])
                final == seen.metadata
                structured == StructuredSeen(seen)
            IN  /\ seen.response # None => hist.probe = Some("ok") /\ ~args.no_grobid
                /\ seen.response = None => args.no_grobid \/ hist.probe # Some("ok")
                /\ DOMAIN final = MetadataFields
                /\ structured # None =>
                      \A k \in StructuredFields : final[k] = The(structured)[k]
                /\ structured = None =>
                      \A k \in StructuredFields : final[k] = HeuristicOf[path][k]
                /\ final.raw_text_snippet = TrimmedStart[path]

\* an all-absent structured record displaces a heuristic title, in a batch where the
\* call of another document failed
SelectorRuleWitness ==
    \E path \in Paths, other \in Paths :
        /\ Finished(path) /\ Finished(other)
        /\ The(hist.seen[path]).response = Some(Xml(EmptyTei))
        /\ The(hist.seen[path]).metadata.title = None
        /\ HeuristicOf[path].title # None
        /\ The(hist.seen[other]).response = Some(RequestException)
        /\ The(hist.seen[other]).metadata.title = HeuristicOf[other].title

\* a stored row without its two timestamps
Untimed(row) == [k \in DOMAIN row \ {"processed_at", "updated_at"} |-> row[k]]

\* this invocation committed and an earlier one had
SecondCommit == pc = "done" /\ hist.commits = 1 /\ hist.prev # None

SameRecord(path) ==
    /\ Cardinality(RowsOf(db, path)) = 1
    /\ Cardinality(RowsOf(The(hist.prev).db, path)) = 1
    /\ {Untimed(r) : r \in RowsOf(db, path)}
       = {Untimed(r) : r \in RowsOf(The(hist.prev).db, path)}

\* C2 as stated: after a second committed run over the same files the store holds
\* for each file the record of the first run, timestamps aside.
Idempotent ==
    SecondCommit => \A path \in Range(pdf_files) : SameRecord(path)

\* C2 amended: the same holds for every file for which the structured extractor gave
\* the same result in both runs (the same record, or no result or no call both times).
IdempotentSameService ==
    SecondCommit =>
        \A path \in Range(pdf_files) :
            StructuredSeen(The(hist.seen[path]))
                = StructuredSeen(The(The(hist.prev).seen[path]))
            => SameRecord(path)

\* a file ingested twice from the same structured record, the second run later
IdempotentWitness ==
    /\ SecondCommit
    /\ \E path \in Range(pdf_files) :
          /\ StructuredSeen(The(hist.seen[path])) = StructuredOf[Xml(RichTei)]
          /\ StructuredSeen(The(The(hist.prev).seen[path])) = StructuredOf[Xml(RichTei)]
          /\ \A r \in RowsOf(db, path), q \in RowsOf(The(hist.prev).db, path) :
                r.processed_at > q.processed_at /\ Untimed(r) = Untimed(q)

\* the connection of this invocation has a transaction, open or committed
InTransaction == conn = "open" \/ hist.commits = 1

\* C3: the table holds at most one row per file_path; the row of a path upserted in
\* the transaction carries exactly the fields of that upsert, None included; the rows
\* of the other paths are those the transaction started from.
UpsertOverwrites ==
    /\ \A path \in Paths :
          Cardinality(RowsOf(txn, path)) <= 1 /\ Cardinality(RowsOf(db, path)) <= 1
    /\ InTransaction =>
          \A path \in Paths :
              RowsOf(txn, path) =
                  IF Finished(path)
                  THEN {Row(path, The(hist.seen[path]).metadata, clock)}
                  ELSE RowsOf(hist.db0, path)

\* an upsert has replaced stored values by None while the row of a path not yet
\* upserted stands as it was
UpsertOverwritesWitness ==
    /\ conn = "open"
    /\ \E path \in Paths, other \in Paths :
          /\ Finished(path) /\ ~Finished(other)
          /\ \E old \in RowsOf(hist.db0, path), new \in RowsOf(txn, path) :
                /\ old.document_type # None /\ new.document_type = None
                /\ old.publisher # None /\ new.publisher = None
          /\ RowsOf(txn, other) # {}
          /\ RowsOf(txn, other) = RowsOf(hist.db0, other)

\* a record with no field that is present but empty
StringFields ==
    {"title", "journal_title", "book_title", "publisher", "abstract", "document_type",
     "raw_text_snippet"}
ListFields == {"authors", "affiliations", "countries", "keywords"}

NoEmptyField(metadata) ==
    /\ \A k \in StringFields : metadata[k] # Some("")
    /\ \A k \in ListFields : metadata[k] # Some(<<>>)

\* C4 as stated: no record handed to the writer or printed has a field that is
\* present but empty.
NoEmptyFields ==
    \A path \in Paths : Finished(path) => NoEmptyField(The(hist.seen[path]).metadata)

\* the record an extractor application returned, when it returned one
Returned == pc = "output" /\ (fin.kind = "text" \/ (fout # None /\ fout # ValueError))

Record == IF fin.kind = "text" THEN fout ELSE The(fout)

\* the date nodes of the two sections of a response, in document order
StmtNodes(root) == findall(root, <<D("publicationStmt"), D("date")>>)
ImprNodes(root) == findall(root, <<D("imprint"), D("date")>>)

\* C5: in every record either extractor returns, year and publication_date, when both
\* are set, name the same year.
YearMatchesDate ==
    Returned =>
        (Record.year # None /\ Record.publication_date # None
            => The(Record.year) = The(Record.publication_date).y)

\* the publication statement gave a bare year and an imprint node the date of another
\* year
YearMatchesDateWitness ==
    /\ Returned
    /\ fin.kind = "xml"
    /\ LET stmt == PublicationStmtDates(StmtNodes(fin.root))
       IN  /\ stmt # ValueError
           /\ The(stmt).year = Some(2019)
           /\ The(stmt).publication_date = None
    /\ Record.publication_date = Some([y |-> 2020, m |-> 5, d |-> 1])
    /\ Record.year = Some(2020)

\* C6 as stated: once the directory is validated, an invocation ends only by
\* finishing: every discovered document is counted and, outside dry-run, has a row
\* written by this invocation.
NoDocumentAbortsBatch ==
    pc \in {"done", "crashed"} =>
        /\ pc = "done"
        /\ processed = Len(pdf_files)
        /\ ~args.dry_run =>
              \A path \in Range(pdf_files) :
                  \E r \in RowsOf(db, path) : r.processed_at = clock

\* the loop has taken this document, to its end or to the exception that ended main()
Taken(path) ==
    \/ \E i \in 1..idx : pdf_files[i] = path
    \/ pc = "crashed" /\ pdf_files[idx + 1] = path

\* C7 in each state: at most one availability check, none before it is due and none
\* with --no-grobid; use_grobid is its result; one structured call for each document
\* taken under use_grobid, none otherwise.
OneCheckOneCall ==
    /\ hist.checks <= 1
    /\ pc \in {"start", "connect", "probe"} => hist.checks = 0 /\ idx = 0
    /\ args.no_grobid => hist.checks = 0
    /\ pc \in {"loop", "done", "crashed"} /\ pdf_files # <<>> =>
          /\ hist.checks = IF args.no_grobid THEN 0 ELSE 1
          /\ use_grobid <=> ~args.no_grobid /\ hist.probe = Some("ok")
    /\ \A path \in Paths :
          hist.calls[path] = IF Taken(path) /\ use_grobid THEN 1 ELSE 0

\* C7: the check is made at most once, before the first document, and while the loop
\* runs neither the check nor its result changes; each document gets exactly one
\* structured call when the check succeeded and none when it failed or was disabled.
CheckedOnceCalledOnce ==
    /\ []OneCheckOneCall
    /\ [][pc = "loop" => use_grobid' = use_grobid /\ hist'.checks = hist.checks
                         /\ hist'.probe = hist.probe]_vars

\* a batch in which the first call failed and the next document was still called,
\* once, with the one check behind both
CheckedOnceCalledOnceWitness ==
    /\ pc = "done"
    /\ Len(pdf_files) >= 2
    /\ hist.checks = 1
    /\ The(hist.seen[pdf_files[1]]).response = Some(RequestException)
    /\ The(hist.seen[pdf_files[2]]).response = Some(Xml(RichTei))
    /\ \A i \in 1..Len(pdf_files) : hist.calls[pdf_files[i]] = 1

\* C8: nothing is committed before the end of main(): until then, and in an
\* invocation that stopped on the way, the committed table is the one the invocation
\* started from; a batch that ends has committed exactly once, after the last upsert,
\* and then the committed table holds the upserts; in dry-run no connection is
\* opened and nothing is written.
CommitOnceAtEnd ==
    /\ hist.commits <= 1
    /\ pc # "done" => hist.commits = 0 /\ db = hist.db0
    /\ hist.commits = 1 =>
          /\ ~args.dry_run
          /\ idx = Len(pdf_files)
          /\ \A path \in Range(pdf_files) : Finished(path)
    /\ pc = "done" /\ ~args.dry_run /\ pdf_files # <<>> =>
          /\ hist.commits = 1
          /\ conn = "closed"
          /\ db = txn
          /\ \A path \in Range(pdf_files) :
                \E r \in RowsOf(db, path) : r.processed_at = clock
    /\ args.dry_run =>
          conn = "none" /\ hist.commits = 0 /\ db = hist.db0 /\ txn = hist.db0

\* an invocation that stopped on its second document: the upsert of the first was
\* never committed
CommitOnceAtEndWitness ==
    /\ pc = "crashed"
    /\ ~args.dry_run
    /\ idx = 1
    /\ Finished(pdf_files[1])
    /\ RowsOf(db, pdf_files[1]) = {}
    /\ db = hist.db0

\* the date the claim describes: the parse of the first node of the list that has
\* one
RECURSIVE FirstDate(_)
FirstDate(date_els) ==
    IF date_els = <<>> THEN None
    ELSE LET parsed == parse_publication_date(Or(Head(date_els).attrib.when,
                                                  Head(date_els).text))
         IN  IF parsed # None THEN parsed ELSE FirstDate(Tail(date_els))

\* every date value of the response parses or fails to match: none raises
DatesWellFormed(root) ==
    \A i \in 1..Len(StmtNodes(root) \o ImprNodes(root)) :
        LET date_el == (StmtNodes(root) \o ImprNodes(root))[i]
        IN  parse_publication_date(Or(date_el.attrib.when, date_el.text)) # ValueError

\* C9 as stated: publication_date is the date of the first publication statement
\* node that has one, else of the first imprint node that has one, and year stands
\* alone only when no node of either section has a date.
FirstMatchingDate ==
    Returned /\ fin.kind = "xml" /\ DatesWellFormed(fin.root) =>
        LET stmt == FirstDate(StmtNodes(fin.root))
            expected == IF stmt # None THEN stmt ELSE FirstDate(ImprNodes(fin.root))
        IN  /\ Record.publication_date = expected
            /\ Record.year # None /\ Record.publication_date = None => expected = None

\* The split of the claim: at commas, semicolons and " and ", the word in any letter
\* case when nocase holds; the pieces trimmed and the empty ones dropped.
RECURSIVE Pieces(_, _)
Pieces(s, nocase) ==
    LET IsAnd(i) == IF nocase THEN MatchesNoCase(s, i, " and ") ELSE Matches(s, i, " and ")
        cuts == {i \in 1..Len(s) : Ch(s, i) \in {",", ";"} \/ IsAnd(i)}
    IN  IF cuts = {} THEN <<s>>
        ELSE LET i == Min(cuts)
                 width == IF Ch(s, i) \in {",", ";"} THEN 1 ELSE 5
             IN  <<SubSeq(s, 1, i - 1)>> \o Pieces(SubSeq(s, i + width, Len(s)), nocase)

Names(s, nocase) ==
    LET pieces == Pieces(s, nocase)
        NonEmpty(part) == part # ""
    IN  SelectSeq([k \in 1..Len(pieces) |-> strip(pieces[k])], NonEmpty)

\* the authors the claim describes for the non-blank lines of a text
AuthorsOf(lines, nocase) ==
    LET labelled == {i \in 1..Len(lines) : i <= 5 /\ SearchLabel(lines[i], {"author"}) # None}
    IN  IF labelled # {}
        THEN Names(The(SearchLabel(lines[Min(labelled)], {"author"})), nocase)
        ELSE IF Len(lines) >= 2 /\ Len(lines[2]) <= 120 THEN Names(lines[2], nocase)
        ELSE <<>>

HeuristicReturned == pc = "output" /\ fin.kind = "text"

\* C10 as stated: the author line is split at commas, semicolons and the word "and"
\* in any letter case.
AuthorsSplitAnyCase ==
    HeuristicReturned => fout.authors = OrNone(AuthorsOf(NonBlankLines(fin.text), TRUE))

\* C10 amended: the author line is split at commas, semicolons and the lower-case
\* " and " with a space on either side; "AND" and "And" do not split.
AuthorsSplitLowerCase ==
    HeuristicReturned => fout.authors = OrNone(AuthorsOf(NonBlankLines(fin.text), FALSE))

\* a labelled line on which a semicolon, a comma and " and " each split, and an
\* "And" did not
AuthorsSplitWitness ==
    /\ HeuristicReturned
    /\ NonBlankLines(fin.text) = <<"Authors: X. Yu, Alexander And and Z. Zed;">>
    /\ fout.authors = Some(<<"X. Yu", "Alexander And", "Z. Zed">>)

====
